---- MODULE Spec2Model ----
(***************************************************************************)
(* Baruk parcel hand-off: src/src/App.jsx.                                 *)
(*                                                                         *)
(* The store (the "packages" and "transit_logs" tables) is shared; every   *)
(* account runs its own copy of App, whose local `packages` list is filled *)
(* by loadPackages: once when the user is set and once per change          *)
(* notification.  Nothing orders the responses of overlapping loads, so    *)
(* the row a screen shows for a package may be any version of that row     *)
(* the store has held: `snapshots` keeps those versions.  Every button is  *)
(* shown or hidden from that local row; a handler then performs its store  *)
(* writes one awaited call after another (updatePkg, then addLog), and     *)
(* other accounts' writes may fall between them.  A handler's first write  *)
(* is taken in the step of the click: the click reads nothing but a local  *)
(* row, and `snapshots` never forgets a row, so a write that lands later   *)
(* is the same click made later on the older row.  The store starts with   *)
(* the repository's seed rows (initialPackages, initialLogs).              *)
(***************************************************************************)
EXTENDS Integers, Sequences, FiniteSets, TLC

VARIABLES
    dbPackages,     \* table "packages": id -> row (snake_case columns)
    dbLogs,         \* table "transit_logs": rows in insertion (created_at) order
    snapshots,      \* id -> the camelCase rows a local `packages` list may hold
    otpError,       \* per rider: RiderApp's otpError keys that are true
    inflight,       \* per account: the log rows its handler call has still to insert
    declaredValue,  \* fee engine run: the input
    fees,           \* fee engine run: << the output >>, or << >> before the run
    user,           \* the accounts whose App holds a user (signed in)
    logs,           \* per account: App's local `logs` list (camelCase entries)
    logins,         \* sign-ins so far
    packages,       \* per account: App's local `packages` list (camelCase rows)
    subscribed,     \* the accounts whose realtime channel is followed
    noticed,        \* per account and table: change events delivered so far
    fetching        \* loads whose response has not arrived yet

vars == << dbPackages, dbLogs, snapshots, otpError, inflight, declaredValue, fees,
           user, logs, logins, packages, subscribed, noticed, fetching >>

appVars == << dbPackages, dbLogs, snapshots, otpError, inflight >>

feeVars == << declaredValue, fees >>

sessVars == << user, logs, logins >>

viewVars == << packages, subscribed, noticed, fetching >>

----------------------------------------------------------------------------
(* Bounds of the model *)

\* handler calls that reach the store in one run
MaxCalls == 3

\* sign-ins in one run of the session specification
MaxLogins == 2

\* handler calls that reach the store in one run of the session specification
MaxSessionCalls == 2

\* handler calls in a run that follows an account's local lists
MaxViewCalls == 2

\* packages created through CreatePackage
MaxCreate == 1
\* largest declared value the fee engine is run on
MaxDeclared == 20000

----------------------------------------------------------------------------
(* Accounts, zones, seed data *)

Null == "null"

ZONES == {"Westlands", "Kasarani", "CBD", "Ngong", "Embakasi", "Thika Road", "Karen", "Ruiru"}

RIDERS == {"rider-01", "rider-02", "rider-03", "rider-04"}

RiderZone(r) ==
    CASE r = "rider-01" -> "Westlands"
      [] r = "rider-02" -> "Ngong"
      [] r = "rider-03" -> "Ruiru"
      [] r = "rider-04" -> "Kasarani"

Customers == {"cust-01"}
Admins == {"admin-01"}
Accounts == Customers \cup RIDERS \cup Admins

\* profile.role of an account (profileToUser)
Role(a) ==
    IF a \in RIDERS THEN "rider" ELSE IF a \in Admins THEN "admin" ELSE "customer"

Statuses == {"searching_rider", "picked_up", "at_warehouse", "out_for_delivery",
             "delivered", "cancelled"}

SeedRow(id, tc, cust, coll, deliv, pick, dest, zone, desc, dv, pf, tot, hv, st, ow, od, owv) ==
    [ id |-> id, tracking_code |-> tc, customer_id |-> cust,
      rider_collection_id |-> coll, rider_delivery_id |-> deliv,
      pickup_address |-> pick, delivery_address |-> dest, delivery_zone |-> zone,
      description |-> desc, declared_value |-> dv, base |-> 200,
      protection_fee |-> pf, total |-> tot, is_high_value |-> hv, status |-> st,
      otp_warehouse |-> ow, otp_delivery |-> od,
      otp_warehouse_verified |-> owv, otp_delivery_verified |-> FALSE ]

initialPackages ==
    ( "pkg-001" :> SeedRow("pkg-001", "MHB-ALPHA1", "cust-01", "rider-01", Null,
                           "Sarit Centre, Westlands", "Garden City Mall, Kasarani",
                           "Kasarani", "Laptop bag", 8500, 128, 328, FALSE,
                           "at_warehouse", "7423", "3891", TRUE) )
    @@
    ( "pkg-002" :> SeedRow("pkg-002", "MHB-BETA22", "cust-02", "rider-02", Null,
                           "Ngong Hills Estate", "Eastgate Mall, Embakasi",
                           "Embakasi", "Electronics package", 15000, 225, 425, TRUE,
                           "at_warehouse", "5512", "2267", FALSE) )
    @@
    ( "pkg-003" :> SeedRow("pkg-003", "MHB-GAMMA3", "cust-03", "rider-01", "rider-03",
                           "Muthaiga Road", "Two Rivers Mall, Ruiru",
                           "Ruiru", "Fashion items", 3200, 0, 200, FALSE,
                           "out_for_delivery", Null, Null, FALSE) )

LogRow(pkgId, actorId, actorRole, event) ==
    [ package_id |-> pkgId, actor_id |-> actorId, actor_role |-> actorRole,
      event |-> event ]

\* a transit_logs row as the store holds it: created_at is the store's column
StoredLog(row, createdAt) ==
    [ package_id |-> row.package_id, actor_id |-> row.actor_id,
      actor_role |-> row.actor_role, event |-> row.event,
      created_at |-> createdAt ]

\* the seed ledger, in the order of the array; created_at in minutes from the
\* moment the program starts (Date.now() - 3600000 is -60)
initialLogs ==
    << StoredLog(LogRow("pkg-001", "rider-01", "rider", "COLLECTED_FROM_CUSTOMER"), -60),
       StoredLog(LogRow("pkg-001", "rider-01", "rider", "ARRIVED_AT_WAREHOUSE"), -40),
       StoredLog(LogRow("pkg-002", "rider-02", "rider", "COLLECTED_FROM_CUSTOMER"), -120),
       StoredLog(LogRow("pkg-002", "rider-02", "rider", "ARRIVED_AT_WAREHOUSE"), -100),
       StoredLog(LogRow("pkg-003", "rider-01", "rider", "COLLECTED_FROM_CUSTOMER"), -90),
       StoredLog(LogRow("pkg-003", "admin-01", "admin", "DISPATCHED_TO_RIDER"), -50),
       StoredLog(LogRow("pkg-003", "rider-03", "rider", "OUT_FOR_DELIVERY"), -45) >>

SeedIds == DOMAIN initialPackages

\* ids the store gives to inserted rows (gen_random_uuid()), in insertion order
NewIds == << "pkg-101", "pkg-102", "pkg-103" >>

Created == DOMAIN dbPackages \ SeedIds

----------------------------------------------------------------------------
(* Fee engine and credential generator *)

\* variant: the fraction is cut off instead of rounded
MathRoundDown(num, den) == num \div den

\* Math.round of the rational num/den: the nearest integer, halves upward
MathRound(num, den) == (2 * num + den) \div (2 * den)

\* variant: the total leaves the protection fee out
calcFeesTotalIsBase(dv) ==
    LET base == 200
        protectionFee == IF dv > 5000 THEN MathRound(dv * 15, 1000) ELSE 0
    IN  [ base |-> base, protectionFee |-> protectionFee,
          total |-> base, isHighValue |-> dv > 10000 ]

calcFees(dv) ==
    LET base == 200
        protectionFee == IF dv > 5000 THEN MathRound(dv * 15, 1000) ELSE 0
    IN  [ base |-> base, protectionFee |-> protectionFee,
          total |-> base + protectionFee, isHighValue |-> dv > 10000 ]

\* values generateOTP() returns in the model's runs (a 4-digit string); no
\* screen compares the code of a created package before it is at the warehouse
OtpDomain == {"4821"}

\* values generateTracking() may return; the first is already in the store
TrackingDomain == {"MHB-ALPHA1", "MHB-K3X9QZ"}

\* text a customer may leave in the "Declared Value (KES)" field
FormValues == { <<>>, <<"1","5","0","0","0">>, <<"-","5">> }

DigitVal(c) ==
    CASE c = "0" -> 0 [] c = "1" -> 1 [] c = "2" -> 2 [] c = "3" -> 3 [] c = "4" -> 4
      [] c = "5" -> 5 [] c = "6" -> 6 [] c = "7" -> 7 [] c = "8" -> 8 [] c = "9" -> 9

RECURSIVE DigitsVal(_)
DigitsVal(s) ==
    IF s = <<>> THEN 0 ELSE 10 * DigitsVal(SubSeq(s, 1, Len(s) - 1)) + DigitVal(s[Len(s)])

\* parseFloat of the field's text: NaN for the empty text
parseFloat(s) ==
    IF s = <<>> \/ s = <<"-">> THEN [ nan |-> TRUE, val |-> 0 ]
    ELSE IF Head(s) = "-" THEN [ nan |-> FALSE, val |-> 0 - DigitsVal(Tail(s)) ]
    ELSE [ nan |-> FALSE, val |-> DigitsVal(s) ]

\* parseFloat(form.declaredValue) || 0
ParseDeclared(s) == IF parseFloat(s).nan THEN 0 ELSE parseFloat(s).val

----------------------------------------------------------------------------
(* Row mapping between the store and the app *)

dbPkgToApp(p) ==
    [ id |-> p.id, trackingCode |-> p.tracking_code, customerId |-> p.customer_id,
      riderCollectionId |-> p.rider_collection_id,
      riderDeliveryId |-> p.rider_delivery_id,
      pickupAddress |-> p.pickup_address, deliveryAddress |-> p.delivery_address,
      deliveryZone |-> p.delivery_zone, description |-> p.description,
      declaredValue |-> p.declared_value, base |-> p.base,
      protectionFee |-> p.protection_fee, total |-> p.total,
      isHighValue |-> p.is_high_value, status |-> p.status,
      otpWarehouse |-> p.otp_warehouse, otpDelivery |-> p.otp_delivery,
      otpWarehouseVerified |-> p.otp_warehouse_verified,
      otpDeliveryVerified |-> p.otp_delivery_verified ]

\* variant: a verified flag the caller leaves out is written as false
ApplyUpdatesFlagsDefaultFalse(p, updates) ==
    [ p EXCEPT
        !.status = IF "status" \in DOMAIN updates THEN updates.status ELSE @,
        !.rider_collection_id =
            IF "riderCollectionId" \in DOMAIN updates THEN updates.riderCollectionId ELSE @,
        !.rider_delivery_id =
            IF "riderDeliveryId" \in DOMAIN updates THEN updates.riderDeliveryId ELSE @,
        !.otp_warehouse_verified =
            IF "otpWarehouseVerified" \in DOMAIN updates THEN updates.otpWarehouseVerified
            ELSE FALSE,
        !.otp_delivery_verified =
            IF "otpDeliveryVerified" \in DOMAIN updates THEN updates.otpDeliveryVerified
            ELSE FALSE ]

\* variant: a verification uses its code up
ApplyUpdatesSpendsCode(p, updates) ==
    [ p EXCEPT
        !.status = IF "status" \in DOMAIN updates THEN updates.status ELSE @,
        !.rider_collection_id =
            IF "riderCollectionId" \in DOMAIN updates THEN updates.riderCollectionId ELSE @,
        !.rider_delivery_id =
            IF "riderDeliveryId" \in DOMAIN updates THEN updates.riderDeliveryId ELSE @,
        !.otp_warehouse = IF "otpWarehouseVerified" \in DOMAIN updates THEN Null ELSE @,
        !.otp_delivery = IF "otpDeliveryVerified" \in DOMAIN updates THEN Null ELSE @,
        !.otp_warehouse_verified =
            IF "otpWarehouseVerified" \in DOMAIN updates THEN updates.otpWarehouseVerified ELSE @,
        !.otp_delivery_verified =
            IF "otpDeliveryVerified" \in DOMAIN updates THEN updates.otpDeliveryVerified ELSE @ ]

\* the row `updates` turns row p into: only the five columns updatePkg copies
ApplyUpdates(p, updates) ==
    [ p EXCEPT
        !.status = IF "status" \in DOMAIN updates THEN updates.status ELSE @,
        !.rider_collection_id =
            IF "riderCollectionId" \in DOMAIN updates THEN updates.riderCollectionId ELSE @,
        !.rider_delivery_id =
            IF "riderDeliveryId" \in DOMAIN updates THEN updates.riderDeliveryId ELSE @,
        !.otp_warehouse_verified =
            IF "otpWarehouseVerified" \in DOMAIN updates THEN updates.otpWarehouseVerified ELSE @,
        !.otp_delivery_verified =
            IF "otpDeliveryVerified" \in DOMAIN updates THEN updates.otpDeliveryVerified ELSE @ ]

\* variant: the table takes any tracking_code
UniqueViolationNever(table, row) == FALSE

\* tracking_code text unique not null: the table refuses the insert of row
UniqueViolation(table, row) ==
    \E i \in DOMAIN table : table[i].tracking_code = row.tracking_code

\* supabase.from("packages").update(dbUpdates).eq("id", id)
updatePkg(table, id, updates) ==
    [ i \in DOMAIN table |-> IF i = id THEN ApplyUpdates(table[i], updates) ELSE table[i] ]

\* created_at's default now(): the store's clock, read at each insert, in
\* minutes from the moment the program starts; it ticks between two inserts
now(table) == Len(table) - Len(initialLogs)

\* variant: the insert replaces the newest row of the table
addLogOverwritesLast(table, row) ==
    Append(SubSeq(table, 1, Len(table) - 1), StoredLog(row, now(table)))

\* supabase.from("transit_logs").insert(row)
addLog(table, row) == Append(table, StoredLog(row, now(table)))

\* Map a Supabase transit_log row to app shape
dbLogToApp(l) ==
    [ packageId |-> l.package_id, actorId |-> l.actor_id,
      actorRole |-> l.actor_role, event |-> l.event, createdAt |-> l.created_at ]

\* .order("created_at", { ascending: ... }): row of rows put into sorted at its
\* place; rows of equal created_at keep the order of the table
RECURSIVE OrderByCreatedAt(_, _)
OrderByCreatedAt(rows, ascending) ==
    IF rows = << >> THEN << >>
    ELSE LET sorted == OrderByCreatedAt(SubSeq(rows, 1, Len(rows) - 1), ascending)
             row == rows[Len(rows)]
             Before(r) == IF ascending THEN r.created_at <= row.created_at
                                       ELSE r.created_at >= row.created_at
             n == Cardinality({ k \in 1 .. Len(sorted) : Before(sorted[k]) })
         IN  SubSeq(sorted, 1, n) \o << row >> \o SubSeq(sorted, n + 1, Len(sorted))

\* variant: the newest row first, the order loadPackages asks for
loadLogsNewestFirst(table) ==
    LET data == OrderByCreatedAt(table, FALSE)
    IN  [ k \in 1 .. Len(data) |-> dbLogToApp(data[k]) ]

\* loadLogs: what it hands to setLogs
loadLogs(table) ==
    LET data == OrderByCreatedAt(table, TRUE)
    IN  [ k \in 1 .. Len(data) |-> dbLogToApp(data[k]) ]

\* created_at of a packages row: the seed rows' offsets in minutes from the
\* moment the program starts, the store's clock for the rows inserted later
PkgCreatedAt(id) ==
    CASE id = "pkg-001" -> -60
      [] id = "pkg-002" -> -120
      [] id = "pkg-003" -> -90
      [] OTHER -> CHOOSE n \in 1 .. Len(NewIds) : NewIds[n] = id

\* .order("created_at", { ascending: false }) over the ids of the table
RECURSIVE NewestFirst(_)
NewestFirst(ids) ==
    IF ids = {} THEN << >>
    ELSE LET newest == CHOOSE i \in ids :
                          \A j \in ids : PkgCreatedAt(i) >= PkgCreatedAt(j)
         IN  << newest >> \o NewestFirst(ids \ {newest})

\* the list loadPackages hands to setPackages
loadPackages(table) ==
    LET data == NewestFirst(DOMAIN table)
    IN  [ k \in 1 .. Len(data) |-> dbPkgToApp(table[data[k]]) ]

\* <Timeline logs={transitLogs.filter(l => l.packageId === pkg.id)} />
TimelineLogs(transitLogs, pkgId) ==
    SelectSeq(transitLogs, LAMBDA l : l.packageId = pkgId)

----------------------------------------------------------------------------
(* Handler calls: the store writes a handler performs, in order *)

\* a handler that awaits updatePkg(id, updates) and then addLog for each of logs
Call(id, updates, logRows) == [ id |-> id, updates |-> updates, logs |-> logRows ]

\* variant: the rider is bound and the status is left for a later step
onAcceptCollectionRiderOnly(pkgId, riderId) ==
    Call(pkgId, [ riderCollectionId |-> riderId ],
         << LogRow(pkgId, riderId, "rider", "COLLECTED_FROM_CUSTOMER") >>)

onAcceptCollection(pkgId, riderId) ==
    Call(pkgId, [ riderCollectionId |-> riderId, status |-> "picked_up" ],
         << LogRow(pkgId, riderId, "rider", "COLLECTED_FROM_CUSTOMER") >>)

onMarkAtWarehouse(pkgId, me) ==
    Call(pkgId, [ status |-> "at_warehouse" ],
         << LogRow(pkgId, me, "rider", "ARRIVED_AT_WAREHOUSE") >>)

\* variant: the dispatch forgets to bind the delivery rider
onDispatchStatusOnly(pkgId, riderId, me) ==
    Call(pkgId, [ status |-> "out_for_delivery" ],
         << LogRow(pkgId, me, "admin", "DISPATCHED_TO_RIDER"),
            LogRow(pkgId, riderId, "rider", "OUT_FOR_DELIVERY") >>)

\* variant: the two ledger rows are inserted the other way round
onDispatchLogsSwapped(pkgId, riderId, me) ==
    Call(pkgId, [ riderDeliveryId |-> riderId, status |-> "out_for_delivery" ],
         << LogRow(pkgId, riderId, "rider", "OUT_FOR_DELIVERY"),
            LogRow(pkgId, me, "admin", "DISPATCHED_TO_RIDER") >>)

onDispatch(pkgId, riderId, me) ==
    Call(pkgId, [ riderDeliveryId |-> riderId, status |-> "out_for_delivery" ],
         << LogRow(pkgId, me, "admin", "DISPATCHED_TO_RIDER"),
            LogRow(pkgId, riderId, "rider", "OUT_FOR_DELIVERY") >>)

\* variant: the self-serve acceptance also sends the package out
onAcceptDeliveryMovesOut(pkgId, riderId) ==
    Call(pkgId, [ riderDeliveryId |-> riderId, status |-> "out_for_delivery" ],
         << LogRow(pkgId, riderId, "rider", "ACCEPTED_DELIVERY_JOB") >>)

onAcceptDelivery(pkgId, riderId) ==
    Call(pkgId, [ riderDeliveryId |-> riderId ],
         << LogRow(pkgId, riderId, "rider", "ACCEPTED_DELIVERY_JOB") >>)

onVerifyOTP(pkgId, type, me) ==
    IF type = "warehouse"
    THEN Call(pkgId, [ otpWarehouseVerified |-> TRUE ],
              << LogRow(pkgId, me, "rider", "OTP_WAREHOUSE_VERIFIED") >>)
    ELSE Call(pkgId, [ otpDeliveryVerified |-> TRUE ],
              << LogRow(pkgId, me, "rider", "OTP_DELIVERY_VERIFIED") >>)

\* variant: the last step writes the status no screen ever sets
onMarkDeliveredCancels(pkgId, me) ==
    Call(pkgId, [ status |-> "cancelled" ],
         << LogRow(pkgId, me, "rider", "DELIVERED") >>)

onMarkDelivered(pkgId, me) ==
    Call(pkgId, [ status |-> "delivered" ],
         << LogRow(pkgId, me, "rider", "DELIVERED") >>)

\* variant: only the warehouse code is generated
NewRowNoDeliveryCode(me, form, trackingCode, otpW, otpD) ==
    LET f == calcFees(ParseDeclared(form.declaredValue))
    IN  [ tracking_code |-> trackingCode, customer_id |-> me,
          pickup_address |-> form.pickupAddress,
          delivery_address |-> form.deliveryAddress,
          delivery_zone |-> form.deliveryZone, description |-> form.description,
          declared_value |-> ParseDeclared(form.declaredValue),
          base |-> f.base, protection_fee |-> f.protectionFee, total |-> f.total,
          is_high_value |-> f.isHighValue, status |-> "searching_rider",
          otp_warehouse |-> IF f.isHighValue THEN otpW ELSE Null,
          otp_delivery |-> Null ]

\* the row onCreatePackage inserts; the store fills id and the column defaults
NewRow(me, form, trackingCode, otpW, otpD) ==
    LET f == calcFees(ParseDeclared(form.declaredValue))
    IN  [ tracking_code |-> trackingCode, customer_id |-> me,
          pickup_address |-> form.pickupAddress,
          delivery_address |-> form.deliveryAddress,
          delivery_zone |-> form.deliveryZone, description |-> form.description,
          declared_value |-> ParseDeclared(form.declaredValue),
          base |-> f.base, protection_fee |-> f.protectionFee, total |-> f.total,
          is_high_value |-> f.isHighValue, status |-> "searching_rider",
          otp_warehouse |-> IF f.isHighValue THEN otpW ELSE Null,
          otp_delivery |-> IF f.isHighValue THEN otpD ELSE Null ]

\* the stored row for an insert: id from the store, unset columns at their defaults
InsertedRow(id, row) ==
    [ id |-> id, tracking_code |-> row.tracking_code, customer_id |-> row.customer_id,
      rider_collection_id |-> Null, rider_delivery_id |-> Null,
      pickup_address |-> row.pickup_address, delivery_address |-> row.delivery_address,
      delivery_zone |-> row.delivery_zone, description |-> row.description,
      declared_value |-> row.declared_value, base |-> row.base,
      protection_fee |-> row.protection_fee, total |-> row.total,
      is_high_value |-> row.is_high_value, status |-> row.status,
      otp_warehouse |-> row.otp_warehouse, otp_delivery |-> row.otp_delivery,
      otp_warehouse_verified |-> FALSE, otp_delivery_verified |-> FALSE ]

----------------------------------------------------------------------------
(* What the rider and admin screens show; ps is a local `packages` list *)

isMyCollection(pkg, rider) == pkg.riderCollectionId = rider
isMyDelivery(pkg, rider) == pkg.riderDeliveryId = rider

needsWarehouseOTP(pkg, rider) ==
    pkg.isHighValue /\ isMyCollection(pkg, rider) /\ pkg.status = "at_warehouse"
    /\ ~pkg.otpWarehouseVerified

needsDeliveryOTP(pkg, rider) ==
    pkg.isHighValue /\ isMyDelivery(pkg, rider) /\ pkg.status = "out_for_delivery"
    /\ ~pkg.otpDeliveryVerified

\* variant: the collection feed lists requests of every zone
collectionFeedAnyZone(ps, rider) ==
    { p \in ps : p.status = "searching_rider" }

collectionFeed(ps, rider) ==
    { p \in ps : p.status = "searching_rider" /\ p.deliveryZone # RiderZone(rider) }

myActive(ps, rider) ==
    { p \in ps : p.riderCollectionId = rider \/ p.riderDeliveryId = rider }

deliveryFeed(ps, rider) ==
    { p \in ps : p.status = "at_warehouse" /\ p.deliveryZone = RiderZone(rider)
                 /\ p.riderDeliveryId = Null }

\* the packages some tab of RiderApp renders a PkgCard for
Cards(ps, rider) == collectionFeed(ps, rider) \cup myActive(ps, rider) \cup deliveryFeed(ps, rider)

ShowsAcceptCollection(pkg, rider) ==
    pkg.status = "searching_rider" /\ ~isMyCollection(pkg, rider)

ShowsMarkAtWarehouse(pkg, rider) ==
    pkg.status = "searching_rider" /\ isMyCollection(pkg, rider)

ShowsAcceptDelivery(pkg, rider) ==
    pkg.status = "at_warehouse" /\ ~isMyDelivery(pkg, rider)
    /\ pkg.deliveryZone = RiderZone(rider)

\* variant: the button does not wait for the delivery code
ShowsMarkDeliveredUnverified(pkg, rider) ==
    pkg.status = "out_for_delivery" /\ isMyDelivery(pkg, rider)

ShowsMarkDelivered(pkg, rider) ==
    pkg.status = "out_for_delivery" /\ isMyDelivery(pkg, rider)
    /\ (~pkg.isHighValue \/ pkg.otpDeliveryVerified)

\* AdminDashboard: the hub table's rows
atHub(ps) == { p \in ps : p.status = "at_warehouse" }

\* the rider ids the picker of a hub row offers
PickerOptions(pkg) ==
    LET inZone == { r \in RIDERS : RiderZone(r) = pkg.deliveryZone }
    IN  IF inZone = {} THEN RIDERS ELSE inZone

----------------------------------------------------------------------------
(* State *)

\* text a customer may leave in an address or description field
FormTexts == {"", "Yaya Centre"}

\* zones a customer picks in the model's runs
FormZones == {"Kasarani"}

\* codes a rider types into an OTP box in the model's runs
OtpInputs == {"5512", "2267", "0000"}

\* no handler call of the account is between its awaits
Idle == << >>

\* handler calls that have reached the store: each one's first log row is
\* inserted or still to insert, and only onDispatch has a second one
CallsStarted ==
    Cardinality({ k \in (Len(initialLogs) + 1) .. Len(dbLogs) :
                    dbLogs[k].event # "OUT_FOR_DELIVERY" })
    + Cardinality({ a \in Accounts :
                    inflight[a] # Idle /\ Head(inflight[a]).event # "OUT_FOR_DELIVERY" })

CallRoom ==
    CallsStarted < (IF subscribed # {} THEN MaxViewCalls
                    ELSE IF logins = 0 THEN MaxCalls ELSE MaxSessionCalls)

\* the rows of package i that account a's local list may hold
LocalRows(a, i) == snapshots[i]

\* no account's local lists are followed: the lists are left empty
NoViews ==
    /\ packages = [ a \in Accounts |-> << >> ]
    /\ subscribed = {}
    /\ noticed = [ a \in Accounts |-> [ packages |-> 0, transit_logs |-> 0 ] ]
    /\ fetching = {}

Init ==
    /\ dbPackages = initialPackages
    /\ dbLogs = initialLogs
    /\ snapshots = [ i \in SeedIds |-> { dbPkgToApp(initialPackages[i]) } ]
    /\ otpError = [ r \in RIDERS |-> {} ]
    /\ inflight = [ a \in Accounts |-> Idle ]
    /\ declaredValue = 0
    /\ fees = << >>
    /\ user = Accounts
    /\ logs = [ a \in Accounts |-> << >> ]
    /\ logins = 0
    /\ NoViews

----------------------------------------------------------------------------
(* The store writes of a handler call *)

\* the call's updatePkg reaches the store; its addLog calls are still to come
Start(a, call) ==
    /\ dbPackages' = updatePkg(dbPackages, call.id, call.updates)
    /\ snapshots' = [ i \in DOMAIN dbPackages' |->
                        snapshots[i] \cup { dbPkgToApp(dbPackages'[i]) } ]
    /\ inflight' = [ inflight EXCEPT ![a] = call.logs ]

\* await addLog(...) completes
AddLog(a) ==
    /\ inflight[a] # Idle
    /\ dbLogs' = addLog(dbLogs, Head(inflight[a]))
    /\ inflight' = [ inflight EXCEPT ![a] = Tail(inflight[a]) ]
    /\ UNCHANGED << dbPackages, snapshots, otpError, feeVars, sessVars, viewVars >>

----------------------------------------------------------------------------
(* Customer *)

\* CustomerApp.handleSubmit, then onCreatePackage up to its insert: the store
\* refuses a row whose tracking_code it already holds (data is then null)
handleSubmit(c) ==
    /\ c \in user
    /\ Role(c) = "customer"
    /\ inflight[c] = Idle
    /\ Cardinality(Created) < MaxCreate
    /\ CallRoom
    /\ \E pick \in FormTexts, dest \in FormTexts, desc \in FormTexts,
          zone \in FormZones, dv \in FormValues,
          tc \in TrackingDomain, otpW \in OtpDomain, otpD \in OtpDomain :
          LET form == [ pickupAddress |-> pick, deliveryAddress |-> dest,
                        deliveryZone |-> zone, description |-> desc,
                        declaredValue |-> dv ]
              row == NewRow(c, form, tc, otpW, otpD)
              id == NewIds[Cardinality(Created) + 1]
          IN  /\ ~(form.pickupAddress = "" \/ form.deliveryAddress = ""
                   \/ form.description = "")
              /\ IF UniqueViolation(dbPackages, row)
                 THEN UNCHANGED << dbPackages, snapshots, inflight >>
                 ELSE /\ dbPackages' = dbPackages @@ (id :> InsertedRow(id, row))
                      /\ snapshots' = snapshots @@ (id :> { dbPkgToApp(InsertedRow(id, row)) })
                      /\ inflight' = [ inflight EXCEPT
                            ![c] = << LogRow(id, c, "customer", "ORDER_PLACED") >> ]
    /\ UNCHANGED << dbLogs, otpError, feeVars, sessVars, viewVars >>

----------------------------------------------------------------------------
(* Rider: the buttons of a PkgCard, read from the rider's local row *)

\* the button of a searching_rider card: "Accept Collection" for a rider who is
\* not its collection-rider, "Mark: Arrived at Warehouse" for the one who is
ClickSearchingRider(r) ==
    /\ r \in user
    /\ Role(r) = "rider"
    /\ inflight[r] = Idle
    /\ CallRoom
    /\ \E i \in DOMAIN snapshots : \E pkg \in Cards(LocalRows(r, i), r) :
          /\ ShowsAcceptCollection(pkg, r) \/ ShowsMarkAtWarehouse(pkg, r)
          /\ Start(r, IF ShowsMarkAtWarehouse(pkg, r)
                      THEN onMarkAtWarehouse(pkg.id, r)
                      ELSE onAcceptCollection(pkg.id, r))
    /\ UNCHANGED << dbLogs, otpError, feeVars, sessVars, viewVars >>

ClickAcceptDelivery(r) ==
    /\ r \in user
    /\ Role(r) = "rider"
    /\ inflight[r] = Idle
    /\ CallRoom
    /\ \E i \in DOMAIN snapshots : \E pkg \in Cards(LocalRows(r, i), r) :
          /\ ShowsAcceptDelivery(pkg, r)
          /\ Start(r, onAcceptDelivery(pkg.id, r))
    /\ UNCHANGED << dbLogs, otpError, feeVars, sessVars, viewVars >>

\* variant: a wrong code is flagged and the verification goes ahead all the same
handleOTPVerifyLenient(r) ==
    /\ r \in user
    /\ Role(r) = "rider"
    /\ inflight[r] = Idle
    /\ CallRoom
    /\ \E i \in DOMAIN snapshots : \E pkg \in Cards(LocalRows(r, i), r) :
       \E type \in {"warehouse", "delivery"}, entered \in OtpInputs :
          LET correct == IF type = "warehouse" THEN pkg.otpWarehouse ELSE pkg.otpDelivery
          IN  /\ IF type = "warehouse" THEN needsWarehouseOTP(pkg, r)
                                       ELSE needsDeliveryOTP(pkg, r)
              /\ Start(r, onVerifyOTP(pkg.id, type, r))
              /\ IF entered = correct
                 THEN otpError' = [ otpError EXCEPT ![r] = @ \ { << pkg.id, type >> } ]
                 ELSE otpError' = [ otpError EXCEPT ![r] = @ \cup { << pkg.id, type >> } ]
    /\ UNCHANGED << dbLogs, feeVars, sessVars, viewVars >>

\* RiderApp.handleOTPVerify behind the "Verify" button of an OTP box
handleOTPVerify(r) ==
    /\ r \in user
    /\ Role(r) = "rider"
    /\ inflight[r] = Idle
    /\ CallRoom
    /\ \E i \in DOMAIN snapshots : \E pkg \in Cards(LocalRows(r, i), r) :
       \E type \in {"warehouse", "delivery"}, entered \in OtpInputs :
          LET correct == IF type = "warehouse" THEN pkg.otpWarehouse ELSE pkg.otpDelivery
          IN  /\ IF type = "warehouse" THEN needsWarehouseOTP(pkg, r)
                                       ELSE needsDeliveryOTP(pkg, r)
              /\ IF entered = correct
                 THEN /\ Start(r, onVerifyOTP(pkg.id, type, r))
                      /\ otpError' = [ otpError EXCEPT ![r] = @ \ { << pkg.id, type >> } ]
                 ELSE /\ otpError' = [ otpError EXCEPT ![r] = @ \cup { << pkg.id, type >> } ]
                      /\ UNCHANGED << dbPackages, snapshots, inflight >>
    /\ UNCHANGED << dbLogs, feeVars, sessVars, viewVars >>

ClickMarkDelivered(r) ==
    /\ r \in user
    /\ Role(r) = "rider"
    /\ inflight[r] = Idle
    /\ CallRoom
    /\ \E i \in DOMAIN snapshots : \E pkg \in Cards(LocalRows(r, i), r) :
          /\ ShowsMarkDelivered(pkg, r)
          /\ Start(r, onMarkDelivered(pkg.id, r))
    /\ UNCHANGED << dbLogs, otpError, feeVars, sessVars, viewVars >>

----------------------------------------------------------------------------
(* Admin: the hub table, read from the admin's local rows *)

\* variant: the hub table is on every role's screen
handleDispatchAnyRole(a) ==
    /\ a \in user
    /\ inflight[a] = Idle
    /\ CallRoom
    /\ \E i \in DOMAIN snapshots, j \in DOMAIN snapshots :
       \E pkg \in atHub(LocalRows(a, i)), pj \in atHub(LocalRows(a, j)) :
       \E selectedRider \in PickerOptions(pj) \cup {""} :
          /\ ~(selectedRider = "")
          /\ Start(a, onDispatch(pkg.id, selectedRider, a))
    /\ UNCHANGED << dbLogs, otpError, feeVars, sessVars, viewVars >>

\* AdminDashboard.handleDispatch behind "Dispatch" on hub row pkg.  The picker
\* value selectedRider is whatever the admin last chose in the picker of a
\* hub row pj: selecting another row or "Cancel" leaves it as it is.
handleDispatch(a) ==
    /\ a \in user
    /\ Role(a) = "admin"
    /\ inflight[a] = Idle
    /\ CallRoom
    /\ \E i \in DOMAIN snapshots, j \in DOMAIN snapshots :
       \E pkg \in atHub(LocalRows(a, i)), pj \in atHub(LocalRows(a, j)) :
       \E selectedRider \in PickerOptions(pj) \cup {""} :
          /\ ~(selectedRider = "")
          /\ Start(a, onDispatch(pkg.id, selectedRider, a))
    /\ UNCHANGED << dbLogs, otpError, feeVars, sessVars, viewVars >>

----------------------------------------------------------------------------
(* Specifications *)

Next ==
    \/ \E a \in Accounts : handleSubmit(a)
    \/ \E a \in Accounts : AddLog(a)
    \/ \E a \in Accounts : ClickSearchingRider(a)
    \/ \E a \in Accounts : ClickAcceptDelivery(a)
    \/ \E a \in Accounts : handleOTPVerify(a)
    \/ \E a \in Accounts : ClickMarkDelivered(a)
    \/ \E a \in Accounts : handleDispatch(a)

Spec == Init /\ [][Next]_vars

\* sessions of one browser: nobody is signed in at the start; accounts sign in
\* and out one after another, and the signed-in App reloads its `logs` list
\* whenever the store notifies it
InitSession ==
    /\ dbPackages = initialPackages
    /\ dbLogs = initialLogs
    /\ snapshots = [ i \in SeedIds |-> { dbPkgToApp(initialPackages[i]) } ]
    /\ otpError = [ r \in RIDERS |-> {} ]
    /\ inflight = [ a \in Accounts |-> Idle ]
    /\ declaredValue = 0
    /\ fees = << >>
    /\ user = {}
    /\ logs = [ a \in Accounts |-> << >> ]
    /\ logins = 0
    /\ NoViews

\* onAuthStateChange with a session: loadProfile, then setUser; the login
\* screen is what App renders while it holds no user
Login(a) ==
    /\ user = {}
    /\ logins < MaxLogins
    /\ user' = user \cup {a}
    /\ logins' = logins + 1
    /\ UNCHANGED << appVars, feeVars, logs, viewVars >>

\* a loadLogs of a signed-in App returns and sets the local list
LoadLogs(a) ==
    /\ a \in user
    /\ logs' = [ logs EXCEPT ![a] = loadLogs(dbLogs) ]
    /\ UNCHANGED << appVars, feeVars, user, logins, viewVars >>

\* handleLogout, then onAuthStateChange without a session
handleLogout(a) ==
    /\ a \in user
    /\ user' = user \ {a}
    /\ logs' = [ logs EXCEPT ![a] = << >> ]
    /\ UNCHANGED << appVars, feeVars, logins, viewVars >>

NextSession ==
    \/ Next
    \/ \E a \in Accounts : Login(a)
    \/ \E a \in Accounts : LoadLogs(a)
    \/ \E a \in Accounts : handleLogout(a)

SpecSession == InitSession /\ [][NextSession]_vars

\* the fee engine alone, run once on every declared value up to MaxDeclared
InitFees ==
    /\ dbPackages = initialPackages
    /\ dbLogs = initialLogs
    /\ snapshots = [ i \in SeedIds |-> { dbPkgToApp(initialPackages[i]) } ]
    /\ otpError = [ r \in RIDERS |-> {} ]
    /\ inflight = [ a \in Accounts |-> Idle ]
    /\ declaredValue \in 0 .. MaxDeclared
    /\ fees = << >>
    /\ user = Accounts
    /\ logs = [ a \in Accounts |-> << >> ]
    /\ logins = 0
    /\ NoViews

RunCalcFees ==
    /\ fees = << >>
    /\ fees' = << calcFees(declaredValue) >>
    /\ UNCHANGED << declaredValue, appVars, sessVars, viewVars >>

NextFees == RunCalcFees

SpecFees == InitFees /\ [][NextFees]_vars

----------------------------------------------------------------------------
(* The local lists of a signed-in App: realtime events and reloads *)

\* the accounts whose lists are followed: an admin's loads return every row
Viewers == Admins

\* change events the store has published for a table: one per packages
\* insert or update (one per handler call), one per transit_logs insert
Changes(tbl) == IF tbl = "packages" THEN CallsStarted ELSE now(dbLogs)

\* the user is set: the first loadPackages and loadLogs have returned and
\* the channel is subscribed
InitViews ==
    /\ dbPackages = initialPackages
    /\ dbLogs = initialLogs
    /\ snapshots = [ i \in SeedIds |-> { dbPkgToApp(initialPackages[i]) } ]
    /\ otpError = [ r \in RIDERS |-> {} ]
    /\ inflight = [ a \in Accounts |-> Idle ]
    /\ declaredValue = 0
    /\ fees = << >>
    /\ user = Accounts
    /\ logins = 0
    /\ subscribed = Viewers
    /\ packages = [ a \in Accounts |->
                      IF a \in Viewers THEN loadPackages(initialPackages) ELSE << >> ]
    /\ logs = [ a \in Accounts |->
                  IF a \in Viewers THEN loadLogs(initialLogs) ELSE << >> ]
    /\ noticed = [ a \in Accounts |-> [ packages |-> 0, transit_logs |-> 0 ] ]
    /\ fetching = {}

\* a postgres_changes event of table tbl reaches a's channel: the callback
\* calls the table's loader, whose select the store answers from its rows
OnPostgresChanges(a, tbl) ==
    /\ a \in subscribed
    /\ noticed[a][tbl] < Changes(tbl)
    /\ noticed' = [ noticed EXCEPT ![a][tbl] = @ + 1 ]
    /\ fetching' = fetching \cup
          { [ client |-> a, table |-> tbl,
              data |-> IF tbl = "packages" THEN loadPackages(dbPackages)
                                           ELSE loadLogs(dbLogs) ] }
    /\ UNCHANGED << appVars, feeVars, sessVars, packages, subscribed >>

\* the response of one of a's loads arrives, whichever it is: setPackages(...)
\* or setLogs(...) with that response's rows
SetLoaded(a) ==
    \E response \in fetching :
        /\ response.client = a
        /\ fetching' = fetching \ {response}
        /\ IF response.table = "packages"
           THEN /\ packages' = [ packages EXCEPT ![a] = response.data ]
                /\ UNCHANGED logs
           ELSE /\ logs' = [ logs EXCEPT ![a] = response.data ]
                /\ UNCHANGED packages
        /\ UNCHANGED << appVars, feeVars, user, logins, subscribed, noticed >>

NextViews ==
    \/ Next
    \/ \E a \in Accounts, tbl \in {"packages", "transit_logs"} : OnPostgresChanges(a, tbl)
    \/ \E a \in Accounts : SetLoaded(a)

SpecViews == InitViews /\ [][NextViews]_vars

----------------------------------------------------------------------------
(* Claims *)

\* C1: of two distinct riders accepting the collection of one searching_rider
\* package one wins and the other is rejected: the COLLECTED_FROM_CUSTOMER
\* entries of a package never name two riders.
C1_OneCollectionWinner ==
    \A i \in DOMAIN dbPackages :
        Cardinality({ dbLogs[k].actor_id :
                        k \in { n \in 1 .. Len(dbLogs) :
                                  /\ dbLogs[n].package_id = i
                                  /\ dbLogs[n].event = "COLLECTED_FROM_CUSTOMER" } }) <= 1

\* C2: a delivered package is not high-value or has its delivery code verified.
C2_DeliveredIsVerified ==
    \A i \in DOMAIN dbPackages :
        dbPackages[i].status = "delivered"
            => (~dbPackages[i].is_high_value \/ dbPackages[i].otp_delivery_verified)

\* C2, its case: a high-value package was dispatched, verified and delivered.
C2_Witness ==
    \E i \in DOMAIN dbPackages :
        /\ dbPackages[i].status = "delivered"
        /\ dbPackages[i].is_high_value
        /\ dbPackages[i].otp_delivery_verified
        /\ \E k \in 1 .. Len(dbLogs) :
              dbLogs[k].package_id = i /\ dbLogs[k].event = "DELIVERED"

\* C3: no step moves a package's status to a lower place in the order
\* searching_rider < picked_up < at_warehouse < out_for_delivery < delivered.
C3_StatusNeverLower ==
    [][ LET order == << "searching_rider", "picked_up", "at_warehouse",
                        "out_for_delivery", "delivered" >>
            rank(st) == CHOOSE n \in 1 .. Len(order) : order[n] = st
        IN  \A i \in DOMAIN dbPackages :
               rank(dbPackages'[i].status) >= rank(dbPackages[i].status) ]_vars

\* C4: in every state a package's status, its creation and its verified delivery
\* code have their ledger entry: no package is changed without its entry.
C4_ChangeHasEntry ==
    LET logged(i, event) ==
            \E k \in 1 .. Len(dbLogs) :
                dbLogs[k].package_id = i /\ dbLogs[k].event = event
    IN  \A i \in DOMAIN dbPackages :
            /\ i \in Created => logged(i, "ORDER_PLACED")
            /\ dbPackages[i].status = "picked_up" => logged(i, "COLLECTED_FROM_CUSTOMER")
            /\ dbPackages[i].status = "at_warehouse" => logged(i, "ARRIVED_AT_WAREHOUSE")
            /\ dbPackages[i].status = "out_for_delivery" => logged(i, "OUT_FOR_DELIVERY")
            /\ dbPackages[i].status = "delivered" => logged(i, "DELIVERED")
            /\ dbPackages[i].otp_delivery_verified => logged(i, "OTP_DELIVERY_VERIFIED")

\* C5: a verification attempt with a wrong code (the step that raises the
\* rider's otpError flag) leaves every package as it is, inserts no ledger
\* row and starts no handler call, however many attempts are made.
C5_WrongCodeChangesNothing ==
    [][ (\E r \in RIDERS : otpError'[r] # otpError[r] /\ otpError[r] \subseteq otpError'[r])
            => /\ dbPackages' = dbPackages
               /\ dbLogs' = dbLogs
               /\ inflight' = inflight ]_vars

\* C5, its case: wrong codes were tried on both boxes of a package, and neither
\* of its codes is verified.
C5_Witness ==
    \E r1 \in RIDERS, r2 \in RIDERS : \E i \in DOMAIN dbPackages :
        /\ << i, "warehouse" >> \in otpError[r1]
        /\ << i, "delivery" >> \in otpError[r2]
        /\ ~dbPackages[i].otp_warehouse_verified
        /\ ~dbPackages[i].otp_delivery_verified

\* C6: once a package's delivery-rider is bound, no step binds another rider.
C6_DeliveryRiderKept ==
    [][ \A i \in DOMAIN dbPackages :
           dbPackages[i].rider_delivery_id # Null
               => dbPackages'[i].rider_delivery_id = dbPackages[i].rider_delivery_id ]_vars

\* C7: a package at_warehouse, out_for_delivery or delivered has a collection
\* rider; a package out_for_delivery or delivered has a delivery rider.
C7_RidersBound ==
    \A i \in DOMAIN dbPackages :
        /\ dbPackages[i].status \in {"at_warehouse", "out_for_delivery", "delivered"}
               => dbPackages[i].rider_collection_id # Null
        /\ dbPackages[i].status \in {"out_for_delivery", "delivered"}
               => dbPackages[i].rider_delivery_id # Null

\* C7, its case: a package that had no delivery rider was dispatched in this
\* run and then delivered.
C7_Witness ==
    \E i \in SeedIds :
        /\ initialPackages[i].rider_delivery_id = Null
        /\ dbPackages[i].status = "delivered"
        /\ dbPackages[i].rider_delivery_id # Null
        /\ dbPackages[i].rider_collection_id # Null

\* C8: every package's total is its base plus its protection fee, in every
\* state, and no step changes the base, protection fee or total of a package.
C8_FeesFixed ==
    /\ [](\A i \in DOMAIN dbPackages :
             dbPackages[i].total = dbPackages[i].base + dbPackages[i].protection_fee)
    /\ [][ \A i \in DOMAIN dbPackages :
              /\ dbPackages'[i].base = dbPackages[i].base
              /\ dbPackages'[i].protection_fee = dbPackages[i].protection_fee
              /\ dbPackages'[i].total = dbPackages[i].total ]_vars

\* C8, its case: a created package with a protection fee has been accepted by
\* a rider.
C8_Witness ==
    \E i \in Created :
        /\ dbPackages[i].protection_fee > 0
        /\ dbPackages[i].status = "picked_up"
        /\ dbPackages[i].total = dbPackages[i].base + dbPackages[i].protection_fee

\* C9: calcFees(v) for a declared value v >= 0: base 200; protection fee 0 up
\* to 5000 and the integer nearest to 1.5% of v, halves upward, above; total
\* their sum; high-value exactly above 10000; with the four quoted examples.
C9_CalcFees ==
    fees # << >> =>
        LET v == declaredValue
            f == fees[1]
        IN  /\ f.base = 200
            /\ v <= 5000 => f.protectionFee = 0
            /\ v > 5000 => /\ 2000 * f.protectionFee - 1000 <= 30 * v
                           /\ 30 * v < 2000 * f.protectionFee + 1000
            /\ f.total = f.base + f.protectionFee
            /\ f.isHighValue = (v > 10000)
            /\ v = 15000 => f.protectionFee = 225 /\ f.total = 425 /\ f.isHighValue
            /\ v = 3000 => f.protectionFee = 0 /\ f.total = 200 /\ ~f.isHighValue
            /\ v = 5000 => f.protectionFee = 0
            /\ v = 10000 => ~f.isHighValue

\* C9, its case: the fee engine has run on a value whose 1.5% ends in a half.
C9_Witness ==
    /\ declaredValue = 5100
    /\ fees # << >>
    /\ fees[1].protectionFee = 77

\* C10: the row a creation adds has status searching_rider, no rider and both
\* verified flags false; above 10000 declared it is high-value with both codes,
\* otherwise it is not high-value and has neither code.
C10_CreatedRow ==
    [][ \A i \in DOMAIN dbPackages' \ DOMAIN dbPackages :
           LET p == dbPackages'[i]
           IN  /\ p.status = "searching_rider"
               /\ p.rider_collection_id = Null
               /\ p.rider_delivery_id = Null
               /\ ~p.otp_warehouse_verified
               /\ ~p.otp_delivery_verified
               /\ IF p.declared_value > 10000
                  THEN p.is_high_value /\ p.otp_warehouse # Null /\ p.otp_delivery # Null
                  ELSE ~p.is_high_value /\ p.otp_warehouse = Null /\ p.otp_delivery = Null ]_vars

\* C10, its case: a high-value package has been created.
C10_Witness ==
    \E i \in Created :
        /\ dbPackages[i].declared_value > 10000
        /\ dbPackages[i].is_high_value
        /\ dbPackages[i].otp_warehouse \in OtpDomain
        /\ dbPackages[i].otp_delivery \in OtpDomain

\* C11: each verified flag is monotonic: no step takes a flag that is true
\* back to false.
C11_VerifiedMonotonic ==
    [][ \A i \in DOMAIN dbPackages :
           /\ dbPackages[i].otp_warehouse_verified => dbPackages'[i].otp_warehouse_verified
           /\ dbPackages[i].otp_delivery_verified => dbPackages'[i].otp_delivery_verified ]_vars

\* C11, its case: a package whose delivery code was verified in the run has
\* since been written again (marked delivered) and is still verified.
C11_Witness ==
    \E i \in DOMAIN dbPackages :
        /\ dbPackages[i].otp_delivery_verified
        /\ dbPackages[i].status = "delivered"
        /\ \E k \in 1 .. Len(dbLogs) :
              dbLogs[k].package_id = i /\ dbLogs[k].event = "OTP_DELIVERY_VERIFIED"

\* C14: the ledger is append-only: whatever step is taken (a handler's write, a
\* verification, a sign-in, a sign-out, a reload), every row the transit_logs
\* table holds is still there afterwards, at its place and unedited.
C14_AppendOnly ==
    [][ /\ Len(dbLogs') >= Len(dbLogs)
        /\ SubSeq(dbLogs', 1, Len(dbLogs)) = dbLogs ]_vars

\* an account has signed in, had a verification entry appended and signed
\* out: the local lists are empty and the row is in the table
C14_Witness ==
    /\ user = {}
    /\ logins = 1
    /\ \A a \in Accounts : logs[a] = << >>
    /\ \E k \in (Len(initialLogs) + 1) .. Len(dbLogs) :
          dbLogs[k].event = "OTP_WAREHOUSE_VERIFIED"

\* the entries of a listing are in non-decreasing order of creation time
NonDecreasing(listing) ==
    \A m, n \in 1 .. Len(listing) :
        m < n => listing[m].createdAt <= listing[n].createdAt

\* C15: for every package, the custody entries listed for it are in
\* non-decreasing order of creation time: in the list every App holds, and
\* in the list a load of the table as it is now would hand to it.
C15_ListedInTimeOrder ==
    LET loaded == loadLogs(dbLogs)
    IN  \A i \in DOMAIN dbPackages :
            /\ NonDecreasing(TimelineLogs(loaded, i))
            /\ \A a \in Accounts : NonDecreasing(TimelineLogs(logs[a], i))

\* an App has loaded a listing in which another account's entry lies between
\* the two entries of a dispatch: appends of two handler calls interleaved
C15_Witness ==
    \E a \in Accounts, i \in SeedIds :
        LET listing == TimelineLogs(logs[a], i)
        IN  \E n \in 1 .. Len(listing) - 2 :
                /\ listing[n].event = "DISPATCHED_TO_RIDER"
                /\ listing[n].createdAt >= 0
                /\ listing[n + 1].event = "OTP_WAREHOUSE_VERIFIED"
                /\ listing[n + 1].actorId # listing[n].actorId
                /\ listing[n + 2].event = "OUT_FOR_DELIVERY"

\* C16: a package that is not high-value holds no warehouse code and no
\* delivery code, has both verified flags false, and has no
\* OTP_WAREHOUSE_VERIFIED or OTP_DELIVERY_VERIFIED entry in the ledger.
C16_StandardHasNoCodes ==
    \A i \in DOMAIN dbPackages :
        ~dbPackages[i].is_high_value =>
            /\ dbPackages[i].otp_warehouse = Null
            /\ dbPackages[i].otp_delivery = Null
            /\ ~dbPackages[i].otp_warehouse_verified
            /\ ~dbPackages[i].otp_delivery_verified
            /\ \A k \in 1 .. Len(dbLogs) :
                  dbLogs[k].package_id = i =>
                      dbLogs[k].event \notin {"OTP_WAREHOUSE_VERIFIED", "OTP_DELIVERY_VERIFIED"}

CreationColumns(p) ==
    << p.tracking_code, p.customer_id, p.declared_value, p.base, p.protection_fee,
       p.total, p.is_high_value, p.otp_warehouse, p.otp_delivery >>

\* C18: once a package exists, no step changes its tracking code, customer
\* id, declared value, base, protection fee, total, high-value flag,
\* warehouse code or delivery code.
C18_CreationColumnsKept ==
    [][ \A i \in DOMAIN dbPackages :
           /\ i \in DOMAIN dbPackages'
           /\ CreationColumns(dbPackages'[i]) = CreationColumns(dbPackages[i]) ]_vars

\* a high-value package has had its warehouse code verified and has been
\* dispatched, and holds the columns it started with, both codes included
C18_Witness ==
    \E i \in SeedIds :
        /\ dbPackages[i].is_high_value
        /\ dbPackages[i].otp_warehouse_verified
        /\ dbPackages[i].status = "out_for_delivery"
        /\ dbPackages[i].otp_warehouse # Null
        /\ CreationColumns(dbPackages[i]) = CreationColumns(initialPackages[i])

\* the status changes the operations' guards allow
GuardedMoves ==
    { << "searching_rider", "picked_up" >>, << "picked_up", "at_warehouse" >>,
      << "at_warehouse", "out_for_delivery" >>, << "out_for_delivery", "delivered" >> }

\* C19: an operation attempted while its guard does not hold in the stored
\* state leaves the package unchanged: a step changes the status of a stored
\* row only along a move its operation's guard allows, binds a collection
\* rider only to a stored searching_rider row without one, binds a delivery
\* rider or sets the warehouse flag only on a stored at_warehouse row, and
\* sets the delivery flag only on a stored out_for_delivery row.
C19_GuardHoldsInStore ==
    [][ \A i \in DOMAIN dbPackages :
           LET p == dbPackages[i]
               q == dbPackages'[i]
           IN  /\ q.status # p.status => << p.status, q.status >> \in GuardedMoves
               /\ q.rider_collection_id # p.rider_collection_id =>
                      p.status = "searching_rider" /\ p.rider_collection_id = Null
               /\ q.rider_delivery_id # p.rider_delivery_id => p.status = "at_warehouse"
               /\ q.otp_warehouse_verified # p.otp_warehouse_verified =>
                      p.status = "at_warehouse"
               /\ q.otp_delivery_verified # p.otp_delivery_verified =>
                      p.status = "out_for_delivery" ]_vars

\* the ledger's dispatch entries of package i, in ledger order
DispatchEntries(i) ==
    SelectSeq(dbLogs, LAMBDA l : l.package_id = i
                  /\ l.event \in {"DISPATCHED_TO_RIDER", "OUT_FOR_DELIVERY"})

\* how many of the first n entries of listing are entries `event`
CountUpTo(listing, n, event) ==
    Cardinality({ k \in 1 .. n : listing[k].event = event })

\* C20: the step in which an admin's dispatch reaches the store binds the
\* delivery rider and sets out_for_delivery on the one row, both at once, and
\* leaves exactly two entries to append: DISPATCHED_TO_RIDER with the admin as
\* actor, then OUT_FOR_DELIVERY with the rider it bound as actor.  In the
\* ledger every OUT_FOR_DELIVERY entry of a package therefore has a
\* DISPATCHED_TO_RIDER entry of its own before it, and a dispatch whose
\* appends are done has left one of each.
C20_DispatchStep ==
    /\ [](\A i \in DOMAIN dbPackages :
            LET entries == DispatchEntries(i)
            IN  /\ \A n \in 1 .. Len(entries) :
                       CountUpTo(entries, n, "OUT_FOR_DELIVERY")
                           <= CountUpTo(entries, n, "DISPATCHED_TO_RIDER")
                /\ (\A a \in Admins : inflight[a] = Idle) =>
                       CountUpTo(entries, Len(entries), "OUT_FOR_DELIVERY")
                           = CountUpTo(entries, Len(entries), "DISPATCHED_TO_RIDER"))
    /\ [][ \A a \in Admins :
              (inflight[a] = Idle /\ inflight'[a] # Idle) =>
                  \E i \in DOMAIN dbPackages, r \in RIDERS :
                      /\ dbPackages'[i].status = "out_for_delivery"
                      /\ dbPackages'[i].rider_delivery_id = r
                      /\ \A j \in DOMAIN dbPackages \ {i} : dbPackages'[j] = dbPackages[j]
                      /\ inflight'[a] = << LogRow(i, a, "admin", "DISPATCHED_TO_RIDER"),
                                          LogRow(i, r, "rider", "OUT_FOR_DELIVERY") >> ]_vars

\* a package that was at the hub has been dispatched in the run: it is
\* out_for_delivery, and the ledger ends with the admin's entry followed by
\* the entry of the rider the row is bound to
C20_Witness ==
    \E i \in SeedIds, a \in Admins :
        /\ initialPackages[i].status = "at_warehouse"
        /\ dbPackages[i].status = "out_for_delivery"
        /\ inflight[a] = Idle
        /\ Len(dbLogs) = Len(initialLogs) + 2
        /\ dbLogs[Len(dbLogs) - 1].event = "DISPATCHED_TO_RIDER"
        /\ dbLogs[Len(dbLogs) - 1].actor_id = a
        /\ dbLogs[Len(dbLogs)].event = "OUT_FOR_DELIVERY"
        /\ dbLogs[Len(dbLogs)].actor_id = dbPackages[i].rider_delivery_id

\* C12: over its lifetime a package's ledger holds at most one
\* OTP_WAREHOUSE_VERIFIED entry and at most one OTP_DELIVERY_VERIFIED entry.
C12_OneVerifiedEntry ==
    \A i \in DOMAIN dbPackages :
        \A event \in {"OTP_WAREHOUSE_VERIFIED", "OTP_DELIVERY_VERIFIED"} :
            Cardinality({ k \in 1 .. Len(dbLogs) :
                            dbLogs[k].package_id = i /\ dbLogs[k].event = event }) <= 1

\* C13: a rider who has verified the delivery code of a high-value package
\* that is out_for_delivery is shown "Mark as Delivered" on that package.
C13_VerifierMayDeliver ==
    \A i \in DOMAIN dbPackages : \A r \in RIDERS :
        LET p == dbPackages[i]
        IN  ( /\ p.is_high_value
              /\ p.status = "out_for_delivery"
              /\ p.otp_delivery_verified
              /\ \E k \in 1 .. Len(dbLogs) :
                    dbLogToApp(dbLogs[k]) =
                            dbLogToApp(StoredLog(LogRow(i, r, "rider", "OTP_DELIVERY_VERIFIED"),
                                                 dbLogs[k].created_at)) )
                => ShowsMarkDelivered(dbPkgToApp(p), r)

\* the forms handleSubmit lets through: no empty address or description
WellFormed ==
    { [ pickupAddress |-> pick, deliveryAddress |-> dest, deliveryZone |-> zone,
        description |-> desc, declaredValue |-> dv ] :
        pick \in FormTexts \ {""}, dest \in FormTexts \ {""}, desc \in FormTexts \ {""},
        zone \in FormZones, dv \in FormValues }

\* C21: a submission with an empty pickup address, delivery address or
\* description creates no package and no ledger entry; a well-formed one adds
\* exactly one package and exactly one ORDER_PLACED entry whose actor is the
\* creating customer.  So: whatever code the generator draws, the table takes
\* the row of a well-formed form; a step that adds packages adds one, with
\* the three texts filled in, and has its ORDER_PLACED entry to append; and
\* the ledger never holds two ORDER_PLACED entries of one package.
C21_Submission ==
    /\ [](\A c \in Customers, form \in WellFormed, tc \in TrackingDomain,
             otpW \in OtpDomain, otpD \in OtpDomain :
             ~UniqueViolation(dbPackages, NewRow(c, form, tc, otpW, otpD)))
    /\ [](\A i \in DOMAIN dbPackages :
             Cardinality({ k \in 1 .. Len(dbLogs) :
                             dbLogs[k].package_id = i /\ dbLogs[k].event = "ORDER_PLACED" }) <= 1)
    /\ [][ \A i \in DOMAIN dbPackages' \ DOMAIN dbPackages :
              LET p == dbPackages'[i]
              IN  /\ DOMAIN dbPackages' = DOMAIN dbPackages \cup {i}
                  /\ p.pickup_address # "" /\ p.delivery_address # "" /\ p.description # ""
                  /\ p.customer_id \in Customers
                  /\ inflight'[p.customer_id]
                        = << LogRow(i, p.customer_id, "customer", "ORDER_PLACED") >>
                  /\ dbLogs' = dbLogs ]_vars

\* the role the screen with the button behind an entry belongs to
RoleOfEvent(event) ==
    CASE event = "ORDER_PLACED" -> "customer"
      [] event \in {"DISPATCHED_TO_RIDER", "OUT_FOR_DELIVERY"} -> "admin"
      [] OTHER -> "rider"

\* the actor role an entry is to carry
ActorRoleOfEvent(event) ==
    CASE event = "ORDER_PLACED" -> "customer"
      [] event = "DISPATCHED_TO_RIDER" -> "admin"
      [] OTHER -> "rider"

\* C22: operations are gated by the role of the signed-in account: an account
\* with entries still to append is a customer when they are a creation's, an
\* admin when they are a dispatch's and a rider otherwise; and every ledger
\* entry has actor role customer for ORDER_PLACED, admin for
\* DISPATCHED_TO_RIDER and rider for every other event, which is the role of
\* the account it names.
C22_RoleGated ==
    /\ \A a \in Accounts : \A k \in 1 .. Len(inflight[a]) :
          /\ Role(a) = RoleOfEvent(inflight[a][k].event)
          /\ inflight[a][k].actor_role = ActorRoleOfEvent(inflight[a][k].event)
          /\ Role(inflight[a][k].actor_id) = inflight[a][k].actor_role
    /\ \A k \in (Len(initialLogs) + 1) .. Len(dbLogs) :
          /\ dbLogs[k].actor_role = ActorRoleOfEvent(dbLogs[k].event)
          /\ Role(dbLogs[k].actor_id) = dbLogs[k].actor_role
    /\ \A k \in 1 .. Len(initialLogs) :
          dbLogs[k].actor_role = ActorRoleOfEvent(dbLogs[k].event)

\* a customer, a rider and an admin have each had an entry appended in the run
C22_Witness ==
    \E k1, k2, k3 \in (Len(initialLogs) + 1) .. Len(dbLogs) :
        /\ dbLogs[k1].event = "ORDER_PLACED"
        /\ dbLogs[k2].event = "COLLECTED_FROM_CUSTOMER"
        /\ dbLogs[k3].event = "OUT_FOR_DELIVERY"

\* the write `updates` takes the stored row a step further: to the next
\* status, or to a verification that is due and not yet made
Advances(stored, updates) ==
    \/ /\ "status" \in DOMAIN updates
       /\ << stored.status, updates.status >> \in GuardedMoves
    \/ /\ "otpWarehouseVerified" \in DOMAIN updates
       /\ stored.is_high_value /\ stored.status = "at_warehouse"
       /\ ~stored.otp_warehouse_verified
    \/ /\ "otpDeliveryVerified" \in DOMAIN updates
       /\ stored.is_high_value /\ stored.status = "out_for_delivery"
       /\ ~stored.otp_delivery_verified

\* some screen, on some row of package i its local list may hold, has a
\* button whose handler takes the stored row a step further
CanAdvance(i) ==
    LET stored == dbPackages[i]
    IN  \E pkg \in snapshots[i] :
            \/ \E r \in RIDERS :
                  /\ pkg \in Cards({pkg}, r)
                  /\ \/ /\ ShowsAcceptCollection(pkg, r)
                        /\ Advances(stored, onAcceptCollection(pkg.id, r).updates)
                     \/ /\ ShowsMarkAtWarehouse(pkg, r)
                        /\ Advances(stored, onMarkAtWarehouse(pkg.id, r).updates)
                     \/ /\ ShowsAcceptDelivery(pkg, r)
                        /\ Advances(stored, onAcceptDelivery(pkg.id, r).updates)
                     \/ /\ needsWarehouseOTP(pkg, r)
                        /\ Advances(stored, onVerifyOTP(pkg.id, "warehouse", r).updates)
                     \/ /\ needsDeliveryOTP(pkg, r)
                        /\ Advances(stored, onVerifyOTP(pkg.id, "delivery", r).updates)
                     \/ /\ ShowsMarkDelivered(pkg, r)
                        /\ Advances(stored, onMarkDelivered(pkg.id, r).updates)
            \/ \E a \in Admins, r \in PickerOptions(pkg) :
                  /\ pkg \in atHub({pkg})
                  /\ Advances(stored, onDispatch(pkg.id, r, a).updates)

\* C23: every created package can complete the lifecycle, through picked_up,
\* at_warehouse and out_for_delivery to delivered: in no state is a created
\* package short of delivered without an operation, on somebody's screen,
\* that takes it a step further.
C23_CanComplete ==
    \A i \in Created :
        dbPackages[i].status # "delivered" => CanAdvance(i)

\* C24: for a package in status picked_up whose collection-rider is R,
\* "Mark: Arrived at Warehouse" is available to R: some row of the package
\* that R's local list may hold is on R's screen with that button.
C24_MarkAtWarehouseAvailable ==
    \A i \in DOMAIN dbPackages : \A r \in RIDERS :
        (dbPackages[i].status = "picked_up" /\ dbPackages[i].rider_collection_id = r)
            => \E pkg \in snapshots[i] :
                   pkg \in Cards({pkg}, r) /\ ShowsMarkAtWarehouse(pkg, r)

\* C25: after any admin dispatch, the rider bound as delivery-rider has the
\* package's delivery zone as home zone, unless no rider has that home zone.
C25_DispatchedInZone ==
    [][ \A a \in Admins :
           (inflight[a] = Idle /\ inflight'[a] # Idle) =>
               LET p == dbPackages'[Head(inflight'[a]).package_id]
               IN  \/ RiderZone(p.rider_delivery_id) = p.delivery_zone
                   \/ \A r \in RIDERS : RiderZone(r) # p.delivery_zone ]_vars

\* C26: a self-serve AcceptDelivery is performed only by a rider whose home
\* zone is the package's delivery zone, on a package stored at at_warehouse
\* with no delivery-rider; it binds that rider as delivery-rider, has exactly
\* one ACCEPTED_DELIVERY_JOB entry to append, and leaves the status and every
\* other column as stored.
C26_AcceptDeliveryFrame ==
    [][ \A r \in RIDERS :
           ( /\ inflight[r] = Idle /\ inflight'[r] # Idle
             /\ Head(inflight'[r]).event = "ACCEPTED_DELIVERY_JOB" ) =>
               LET i == Head(inflight'[r]).package_id
                   p == dbPackages[i]
               IN  /\ RiderZone(r) = p.delivery_zone
                   /\ p.status = "at_warehouse"
                   /\ p.rider_delivery_id = Null
                   /\ dbPackages' = [ dbPackages EXCEPT ![i].rider_delivery_id = r ]
                   /\ inflight'[r] = << LogRow(i, r, "rider", "ACCEPTED_DELIVERY_JOB") >> ]_vars

\* C27: in every state a high-value package whose status is out_for_delivery
\* or delivered has its warehouse code verified.
C27_WarehouseGate ==
    \A i \in DOMAIN dbPackages :
        ( /\ dbPackages[i].is_high_value
          /\ dbPackages[i].status \in {"out_for_delivery", "delivered"} )
            => dbPackages[i].otp_warehouse_verified

\* C28: the warehouse flag becomes true only in a step of the package's
\* collection-rider while the stored package is high-value and at_warehouse,
\* and the delivery flag only in a step of its delivery-rider while the
\* stored package is high-value and out_for_delivery.
C28_WhoVerifies ==
    [][ \A i \in DOMAIN dbPackages :
           LET p == dbPackages[i]
               q == dbPackages'[i]
           IN  /\ (~p.otp_warehouse_verified /\ q.otp_warehouse_verified) =>
                      /\ p.is_high_value
                      /\ p.status = "at_warehouse"
                      /\ p.rider_collection_id \in RIDERS
                      /\ inflight'[p.rider_collection_id]
                            = << LogRow(i, p.rider_collection_id, "rider",
                                        "OTP_WAREHOUSE_VERIFIED") >>
               /\ (~p.otp_delivery_verified /\ q.otp_delivery_verified) =>
                      /\ p.is_high_value
                      /\ p.status = "out_for_delivery"
                      /\ p.rider_delivery_id \in RIDERS
                      /\ inflight'[p.rider_delivery_id]
                            = << LogRow(i, p.rider_delivery_id, "rider",
                                        "OTP_DELIVERY_VERIFIED") >> ]_vars

\* C29: MarkDelivered takes effect only when the acting rider is the stored
\* package's delivery-rider and the stored status is out_for_delivery, so the
\* actor of a DELIVERED entry is the package's delivery-rider at the moment
\* the status became delivered.
C29_DeliveredByDeliveryRider ==
    [][ \A r \in RIDERS :
           ( /\ inflight[r] = Idle /\ inflight'[r] # Idle
             /\ Head(inflight'[r]).event = "DELIVERED" ) =>
               LET p == dbPackages[Head(inflight'[r]).package_id]
               IN  /\ p.status = "out_for_delivery"
                   /\ p.rider_delivery_id = Head(inflight'[r]).actor_id ]_vars

\* the place of a lifecycle entry in the order the lifecycle gives them
LifecycleRank(event) ==
    CASE event = "ORDER_PLACED" -> 0
      [] event = "COLLECTED_FROM_CUSTOMER" -> 1
      [] event = "ARRIVED_AT_WAREHOUSE" -> 2
      [] event = "DISPATCHED_TO_RIDER" -> 3
      [] event = "OUT_FOR_DELIVERY" -> 4
      [] event = "OTP_DELIVERY_VERIFIED" -> 5
      [] event = "DELIVERED" -> 6
      [] OTHER -> -1

\* C30: the ledger of a created package, read in order, respects the
\* lifecycle: ORDER_PLACED is its first entry, and of the entries
\* COLLECTED_FROM_CUSTOMER, ARRIVED_AT_WAREHOUSE, DISPATCHED_TO_RIDER,
\* OUT_FOR_DELIVERY, OTP_DELIVERY_VERIFIED (high-value) and DELIVERED none
\* comes before an entry that is earlier in this list.
C30_LedgerFollowsLifecycle ==
    \A i \in Created :
        LET entries == SelectSeq(dbLogs, LAMBDA l : l.package_id = i)
        IN  /\ entries # << >> => entries[1].event = "ORDER_PLACED"
            /\ \A m, n \in 1 .. Len(entries) :
                  ( /\ m < n
                    /\ LifecycleRank(entries[m].event) >= 0
                    /\ LifecycleRank(entries[n].event) >= 0 )
                      => LifecycleRank(entries[m].event) <= LifecycleRank(entries[n].event)

----------------------------------------------------------------------------

\* place of a status in the lifecycle searching_rider .. delivered
StatusRank(st) ==
    CASE st = "searching_rider" -> 1
      [] st = "picked_up" -> 2
      [] st = "at_warehouse" -> 3
      [] st = "out_for_delivery" -> 4
      [] st = "delivered" -> 5
      [] OTHER -> 0

\* the ledger holds an entry of this event for package i
Logged(i, event) ==
    \E k \in 1 .. Len(dbLogs) :
        dbLogs[k].package_id = i /\ dbLogs[k].event = event

\* C31: in every state and for every package, seeded or created, the ledger
\* has an entry for every step the status has passed (collected from
\* picked_up on, arrived from at_warehouse on, both dispatch entries from
\* out_for_delivery on, delivered at delivered) and for every verified flag
\* that is true.
C31_NoLedgerGaps ==
    \A i \in DOMAIN dbPackages :
        LET p == dbPackages[i]
        IN  /\ StatusRank(p.status) >= 2 => Logged(i, "COLLECTED_FROM_CUSTOMER")
            /\ StatusRank(p.status) >= 3 => Logged(i, "ARRIVED_AT_WAREHOUSE")
            /\ StatusRank(p.status) >= 4 =>
                  Logged(i, "DISPATCHED_TO_RIDER") /\ Logged(i, "OUT_FOR_DELIVERY")
            /\ StatusRank(p.status) = 5 => Logged(i, "DELIVERED")
            /\ p.otp_warehouse_verified => Logged(i, "OTP_WAREHOUSE_VERIFIED")
            /\ p.otp_delivery_verified => Logged(i, "OTP_DELIVERY_VERIFIED")

\* C32: every stored package has a declared value of zero or more, whatever
\* text the customer left in the declared-value field.
C32_DeclaredValueNonNegative ==
    \A i \in DOMAIN dbPackages : dbPackages[i].declared_value >= 0

\* C33: for every package created through the booking form, in every state the
\* collection rider is unbound exactly when the status is searching_rider, and
\* no step clears a bound collection rider or returns a status to
\* searching_rider.
C33_CollectionRiderIffSearching ==
    /\ [](\A i \in Created :
             (dbPackages[i].rider_collection_id = Null)
                 <=> (dbPackages[i].status = "searching_rider"))
    /\ [][ \A i \in Created :
             /\ dbPackages[i].rider_collection_id # Null
                    => dbPackages'[i].rider_collection_id # Null
             /\ dbPackages[i].status # "searching_rider"
                    => dbPackages'[i].status # "searching_rider" ]_vars

\* a created package has been accepted: rider bound, status picked_up
C33_Witness ==
    \E i \in Created :
        /\ dbPackages[i].rider_collection_id \in RIDERS
        /\ dbPackages[i].status = "picked_up"

\* the step is an admin's onDispatch of package i reaching the store: the
\* admin's two dispatch entries are left to insert
DispatchStepOf(i) ==
    \E a \in Admins :
        /\ inflight[a] = Idle
        /\ inflight'[a] =
              << LogRow(i, a, "admin", "DISPATCHED_TO_RIDER"),
                 LogRow(i, dbPackages'[i].rider_delivery_id, "rider", "OUT_FOR_DELIVERY") >>

\* C34: a status becomes out_for_delivery only in an admin's Dispatch step; a
\* package at the warehouse with a delivery rider bound (by Accept Delivery)
\* leaves at_warehouse only in such a step; a created package that is
\* out_for_delivery or delivered has a DISPATCHED_TO_RIDER entry, and any
\* package in those statuses has that entry in the ledger or waiting in the
\* dispatching admin's call.
C34_OutOnlyByDispatch ==
    /\ [][ \A i \in DOMAIN dbPackages :
             /\ ( dbPackages[i].status # "out_for_delivery"
                  /\ dbPackages'[i].status = "out_for_delivery" ) => DispatchStepOf(i)
             /\ ( dbPackages[i].status = "at_warehouse"
                  /\ dbPackages[i].rider_delivery_id # Null
                  /\ dbPackages'[i].status # "at_warehouse" ) =>
                    ( dbPackages'[i].status = "out_for_delivery" /\ DispatchStepOf(i) )
         ]_vars
    /\ [](\A i \in DOMAIN dbPackages :
            dbPackages[i].status \in {"out_for_delivery", "delivered"} =>
                /\ i \in Created => Logged(i, "DISPATCHED_TO_RIDER")
                /\ \/ Logged(i, "DISPATCHED_TO_RIDER")
                   \/ \E a \in Admins : \E n \in 1 .. Len(inflight[a]) :
                         /\ inflight[a][n].package_id = i
                         /\ inflight[a][n].event = "DISPATCHED_TO_RIDER")

\* a package that started at the hub was taken by a rider with Accept
\* Delivery, stayed at the hub, and was then dispatched by the admin: it is
\* out_for_delivery and the acceptance precedes the dispatch in the ledger
C34_Witness ==
    \E i \in SeedIds : \E m, n \in 1 .. Len(dbLogs) :
        /\ initialPackages[i].status = "at_warehouse"
        /\ dbPackages[i].status = "out_for_delivery"
        /\ m < n
        /\ dbLogs[m].package_id = i /\ dbLogs[m].event = "ACCEPTED_DELIVERY_JOB"
        /\ dbLogs[n].package_id = i /\ dbLogs[n].event = "DISPATCHED_TO_RIDER"

\* C35: on every card a rider can be looking at, Accept Collection is shown
\* only on a searching_rider package whose delivery zone is not the rider's
\* home zone and Accept Delivery only on a package whose delivery zone is the
\* rider's home zone (the zone of the stored row as well as of the card); and
\* a step that leaves one rider bound as both the collection rider and the
\* delivery rider of a package is an admin's Dispatch step.
C35_ZoneFeeds ==
    /\ [](\A r \in RIDERS : \A i \in DOMAIN snapshots :
            \A pkg \in Cards(LocalRows(r, i), r) :
                /\ ShowsAcceptCollection(pkg, r) =>
                      /\ pkg.status = "searching_rider"
                      /\ pkg.deliveryZone # RiderZone(r)
                      /\ dbPackages[pkg.id].delivery_zone # RiderZone(r)
                /\ ShowsAcceptDelivery(pkg, r) =>
                      /\ pkg.deliveryZone = RiderZone(r)
                      /\ dbPackages[pkg.id].delivery_zone = RiderZone(r))
    /\ [][ \A i \in DOMAIN dbPackages :
             ( /\ dbPackages'[i].rider_collection_id # Null
               /\ dbPackages'[i].rider_collection_id = dbPackages'[i].rider_delivery_id
               /\ dbPackages[i].rider_collection_id # dbPackages[i].rider_delivery_id )
             => DispatchStepOf(i) ]_vars

\* both offers have been taken: a created package was collected by a rider
\* of another zone than its delivery zone, and a package at the hub has a
\* delivery rider of its delivery zone bound by Accept Delivery
C35_Witness ==
    /\ \E i \in Created :
          /\ dbPackages[i].rider_collection_id \in RIDERS
          /\ RiderZone(dbPackages[i].rider_collection_id) # dbPackages[i].delivery_zone
    /\ \E j \in DOMAIN dbPackages :
          /\ dbPackages[j].status = "at_warehouse"
          /\ dbPackages[j].rider_delivery_id \in RIDERS
          /\ RiderZone(dbPackages[j].rider_delivery_id) = dbPackages[j].delivery_zone
          /\ Logged(j, "ACCEPTED_DELIVERY_JOB")

\* C36: in every state every package's status is one of searching_rider,
\* picked_up, at_warehouse, out_for_delivery, delivered: the status cancelled,
\* which the store's check constraint allows, is written by no operation.
C36_NeverCancelled ==
    \A i \in DOMAIN dbPackages :
        /\ dbPackages[i].status \in Statuses \ {"cancelled"}
        /\ \A row \in snapshots[i] : row.status # "cancelled"

\* the operations have written statuses: a created package stands at
\* picked_up and a package has been marked delivered
C36_Witness ==
    /\ \E i \in Created : dbPackages[i].status = "picked_up"
    /\ \E j \in DOMAIN dbPackages :
          dbPackages[j].status = "delivered" /\ Logged(j, "DELIVERED")

\* nothing is on its way for account a: no handler call is between its
\* writes, every change event has reached a's channel and every load it
\* started has returned
Settled(a) ==
    /\ \A b \in Accounts : inflight[b] = Idle
    /\ \A tbl \in {"packages", "transit_logs"} : noticed[a][tbl] = Changes(tbl)
    /\ \A response \in fetching : response.client # a

\* C37: once the writes have ended, every change event has been delivered and
\* every reload has completed, a signed-in client's local package list and
\* local ledger are the store's contents, in whatever order the responses of
\* overlapping reloads arrived.
C37_ViewsConverge ==
    \A a \in subscribed :
        Settled(a) =>
            /\ packages[a] = loadPackages(dbPackages)
            /\ logs[a] = loadLogs(dbLogs)

====
